---- MODULE Spec2Model ----
(***************************************************************************)
(* A model of GPIBController (src/GPIB.py): the registry of open           *)
(* instrument handles, the operations on it, and the VISA transport they   *)
(* call.  The transport is the environment: every transport call may       *)
(* return or raise, and the model records each call this layer issues.     *)
(*                                                                         *)
(* Time is counted in ticks of 0.1 s.  The clock is read only by           *)
(* wait_for_completion, so it is kept relative to that call's start_time.  *)
(*                                                                         *)
(* Three specifications share the actions:                                 *)
(*   Spec          every public operation, on a small registry;            *)
(*   SpecRegistry  connect, disconnect and close_all, up to MaxSessions    *)
(*                 handles;                                                *)
(*   SpecWait      wait_for_completion with timeouts up to one second.     *)
(***************************************************************************)
EXTENDS Integers, Sequences, FiniteSets

\* ---------------------------------------------------------------- bounds
MaxHandles    == 1  \* handles open_resource hands out in a run of Spec
MaxSessions   == 3  \* handles open_resource hands out in a run of SpecRegistry
MaxCloseCalls == 1  \* close calls this layer may issue on one handle
MaxLatency    == 1  \* ticks one transport query may take
ShortTimeout  == 3  \* a timeout shorter than one second, in ticks

\* ------------------------------------------------------- program constants
PollSleep  == 1     \* time.sleep(0.1) in the wait loop, in ticks
QueryDelay == 1     \* query_command's default delay=0.1, in ticks
OneSecond  == 10 * PollSleep

\* ----------------------------------------------------------------- inputs
Addresses  == {"GPIB0::10::INSTR", "GPIB0::12::INSTR"}
None       == <<>>                       \* an absent optional argument
Some(s)    == <<s>>
Aliases    == {None, Some(""), Some("my_instrument")}
Identifiers == Addresses \cup {"my_instrument"}
SendCommands  == {"CH1, 'V1', 'I1', 1, 3"}
QueryCommands == {"READ?"}
Delays     == {-1, QueryDelay}           \* time.sleep raises on a negative delay
ShortTimeouts == {0, ShortTimeout}
Timeouts   == {0, ShortTimeout, OneSecond}
Outcomes   == {"ok", "raise"}
\* what the instrument may answer to a query or read, as character sequences
Responses  == {<<"0">>, <<"1">>, <<" ", "1", "\n">>, <<"1", "0">>}
\* a transport call that returns text: it returns it, or it raises
Raises     == [ok |-> FALSE, text |-> <<>>]
Returns(t) == [ok |-> TRUE, text |-> t]
Answers    == {Raises} \cup {Returns(t) : t \in Responses}
\* the answers tried outside wait_for_completion
IoAnswers  == {Raises, Returns(<<" ", "1", "\n">>)}
ConnectOutcomes == {"ok", "open_raises", "config_raises"}
ResourceLists == {<<>>, <<"GPIB0::10::INSTR">>,
                  <<"GPIB0::10::INSTR", "GPIB0::12::INSTR">>}
ListAnswers == {Raises} \cup {Returns(l) : l \in ResourceLists}

\* ---------------------------------------------------------- pure helpers
Whitespace == {" ", "\n", "\t", "\r"}

RECURSIVE LStrip(_)
LStrip(s) == IF s # <<>> /\ Head(s) \in Whitespace THEN LStrip(Tail(s)) ELSE s

RECURSIVE RStrip(_)
RStrip(s) ==
    IF s # <<>> /\ s[Len(s)] \in Whitespace
    THEN RStrip(SubSeq(s, 1, Len(s) - 1)) ELSE s

\* str.strip()
Strip(s) == RStrip(LStrip(s))

\* Python truthiness of an optional string: None and "" are falsy
Truthy(alias) == alias # None /\ alias[1] # ""

\* self.instruments: a dict, kept as its items in insertion order
DictKeys(d) == [i \in 1..Len(d) |-> d[i].k]
Has(d, key) == \E i \in 1..Len(d) : d[i].k = key
Get(d, key) == d[CHOOSE i \in 1..Len(d) : d[i].k = key].h
Put(d, key, h) ==
    IF Has(d, key)
    THEN [i \in 1..Len(d) |-> IF d[i].k = key THEN [k |-> key, h |-> h] ELSE d[i]]
    ELSE Append(d, [k |-> key, h |-> h])
\* mutant: the whole dict is cleared (self.instruments.clear())
DelClear(d, key) == <<>>

Del(d, key) == SelectSeq(d, LAMBDA e : e.k # key)
Handles(d) == {d[i].h : i \in 1..Len(d)}

\* return values
RetBool(b) == [kind |-> "bool", b |-> b, s |-> <<>>]
RetNone    == [kind |-> "none", b |-> FALSE, s |-> <<>>]
RetStr(s)  == [kind |-> "str", b |-> FALSE, s |-> s]
RetList(l) == [kind |-> "list", b |-> FALSE, s |-> l]

\* one call issued to the transport, on handle h (0: the resource manager),
\* and whether it returned (ok) or raised
Call(name, h, arg, ok) == [call |-> name, h |-> h, arg |-> arg, ok |-> ok]

\* the outcome of running a piece of code from the state st:
\* the state it leaves, the transport calls it issued, what it returned,
\* whether an exception left it, and the time it took
Result(st, io, ret, raised, dt) ==
    [st |-> st, io |-> io, ret |-> ret, raised |-> raised, dt |-> dt]

\* mutant: the handler logs and re-raises, as __init__'s does
ExceptReraise(body, sentinel) == body

\* try: body / except Exception: log; return sentinel
ExceptReturn(body, sentinel) ==
    IF body.raised THEN [body EXCEPT !.ret = sentinel, !.raised = FALSE] ELSE body

\* ------------------------------------------------------------- operations

\* list_resources (lines 54-60)
ListBody(st, answer) ==
    LET c == Call("list_resources", 0, "", answer.ok)
    IN  IF answer.ok
        THEN Result(st, <<c>>, RetList(answer.text), FALSE, 0)
        ELSE Result(st, <<c>>, RetNone, TRUE, 0)

list_resources(st, answer) == ExceptReturn(ListBody(st, answer), RetList(<<>>))

\* connect_instrument, the try block (lines 74-85)
ConnectKey(resource_name, alias) ==
    IF Truthy(alias) THEN alias[1] ELSE resource_name

\* mutant: a re-registration closes the handle it replaces
ConnectBodyClosesOld(st, resource_name, alias, outcome) ==
    LET h    == st.opened + 1
        key  == ConnectKey(resource_name, alias)
        open == Call("open_resource", 0, resource_name, outcome # "open_raises")
        conf == Call("configure", h, "", outcome # "config_raises")
        cc1  == Append(st.cc, 0)
    IN  CASE outcome = "open_raises" ->
                Result(st, <<open>>, RetNone, TRUE, 0)
          [] outcome = "config_raises" ->
                Result([st EXCEPT !.opened = h, !.cc = cc1],
                       <<open, conf>>, RetNone, TRUE, 0)
          [] Has(st.inst, key) ->
                LET old == Get(st.inst, key)
                IN  Result([st EXCEPT !.opened = h,
                                      !.cc = [cc1 EXCEPT ![old] = @ + 1],
                                      !.inst = Put(st.inst, key, h),
                                      !.leaked = st.leaked \cup {old}],
                           <<open, conf, Call("close", old, "", TRUE)>>,
                           RetBool(TRUE), FALSE, 0)
          [] OTHER ->
                Result([st EXCEPT !.opened = h, !.cc = cc1,
                                  !.inst = Put(st.inst, key, h)],
                       <<open, conf>>, RetBool(TRUE), FALSE, 0)

\* mutant: the handle is stored before it is configured
ConnectBodyStoresFirst(st, resource_name, alias, outcome) ==
    LET h    == st.opened + 1
        key  == ConnectKey(resource_name, alias)
        open == Call("open_resource", 0, resource_name, outcome # "open_raises")
        conf == Call("configure", h, "", outcome # "config_raises")
        old  == IF Has(st.inst, key) THEN {Get(st.inst, key)} ELSE {}
        stored == [st EXCEPT !.opened = h,
                             !.cc = Append(st.cc, 0),
                             !.inst = Put(st.inst, key, h),
                             !.leaked = st.leaked \cup old]
    IN  CASE outcome = "open_raises" ->
                Result(st, <<open>>, RetNone, TRUE, 0)
          [] outcome = "config_raises" ->
                Result(stored, <<open, conf>>, RetNone, TRUE, 0)
          [] OTHER ->
                Result(stored, <<open, conf>>, RetBool(TRUE), FALSE, 0)

ConnectBody(st, resource_name, alias, outcome) ==
    LET h    == st.opened + 1
        key  == ConnectKey(resource_name, alias)
        open == Call("open_resource", 0, resource_name, outcome # "open_raises")
        conf == Call("configure", h, "", outcome # "config_raises")
        old  == IF Has(st.inst, key) THEN {Get(st.inst, key)} ELSE {}
    IN  CASE outcome = "open_raises" ->
                Result(st, <<open>>, RetNone, TRUE, 0)
          [] outcome = "config_raises" ->
                Result([st EXCEPT !.opened = h, !.cc = Append(st.cc, 0)],
                       <<open, conf>>, RetNone, TRUE, 0)
          [] OTHER ->
                Result([st EXCEPT !.opened = h,
                                  !.cc = Append(st.cc, 0),
                                  !.inst = Put(st.inst, key, h),
                                  !.leaked = st.leaked \cup old],
                       <<open, conf>>, RetBool(TRUE), FALSE, 0)

connect_instrument(st, resource_name, alias, outcome) ==
    ExceptReturn(ConnectBody(st, resource_name, alias, outcome), RetBool(FALSE))

\* disconnect_instrument, the try block (lines 102-109)
\* mutant: the entry is deleted before the handle is closed
DisconnectBodyDelFirst(st, identifier, closeOutcome) ==
    IF Has(st.inst, identifier)
    THEN LET h      == Get(st.inst, identifier)
             c      == Call("close", h, "", closeOutcome # "raise")
             called == [st EXCEPT !.cc[h] = @ + 1,
                                  !.inst = Del(st.inst, identifier)]
         IN  IF closeOutcome = "raise"
             THEN Result(called, <<c>>, RetNone, TRUE, 0)
             ELSE Result(called, <<c>>, RetBool(TRUE), FALSE, 0)
    ELSE Result(st, <<>>, RetBool(FALSE), FALSE, 0)

DisconnectBody(st, identifier, closeOutcome) ==
    IF Has(st.inst, identifier)
    THEN LET h      == Get(st.inst, identifier)
             c      == Call("close", h, "", closeOutcome # "raise")
             called == [st EXCEPT !.cc[h] = @ + 1]
         IN  IF closeOutcome = "raise"
             THEN Result(called, <<c>>, RetNone, TRUE, 0)
             ELSE Result([called EXCEPT !.inst = Del(st.inst, identifier)],
                         <<c>>, RetBool(TRUE), FALSE, 0)
    ELSE Result(st, <<>>, RetBool(FALSE), FALSE, 0)

disconnect_instrument(st, identifier, closeOutcome) ==
    ExceptReturn(DisconnectBody(st, identifier, closeOutcome), RetBool(FALSE))

\* send_command, the try block (lines 127-134)
\* mutant: a failed write drops the session from the registry
SendBodyDropsOnError(st, identifier, command, delay, writeOutcome) ==
    IF ~Has(st.inst, identifier)
    THEN Result(st, <<>>, RetBool(FALSE), FALSE, 0)
    ELSE LET c == Call("write", Get(st.inst, identifier), command,
                       writeOutcome # "raise")
         IN  IF writeOutcome = "raise" \/ delay < 0
             THEN Result([st EXCEPT !.inst = Del(st.inst, identifier)],
                         <<c>>, RetNone, TRUE, 0)
             ELSE Result(st, <<c>>, RetBool(TRUE), FALSE, delay)

SendBody(st, identifier, command, delay, writeOutcome) ==
    IF ~Has(st.inst, identifier)
    THEN Result(st, <<>>, RetBool(FALSE), FALSE, 0)
    ELSE LET c == Call("write", Get(st.inst, identifier), command,
                       writeOutcome # "raise")
         IN  IF writeOutcome = "raise" \/ delay < 0
             THEN Result(st, <<c>>, RetNone, TRUE, 0)
             ELSE Result(st, <<c>>, RetBool(TRUE), FALSE, delay)

send_command(st, identifier, command, delay, writeOutcome) ==
    ExceptReturn(SendBody(st, identifier, command, delay, writeOutcome),
                 RetBool(FALSE))

\* query_command, the try block (lines 153-160); the transport takes lat ticks
\* mutant: an unconnected identifier yields the empty string, not None
QueryBodyEmptyString(st, identifier, command, delay, answer, lat) ==
    IF ~Has(st.inst, identifier)
    THEN Result(st, <<>>, RetStr(<<>>), FALSE, 0)
    ELSE LET c == Call("query", Get(st.inst, identifier), command, answer.ok)
         IN  IF ~answer.ok \/ delay < 0
             THEN Result(st, <<c>>, RetNone, TRUE, lat)
             ELSE Result(st, <<c>>, RetStr(Strip(answer.text)), FALSE, lat + delay)

\* mutant: query_command does not sleep after the query
QueryBodyNoDelay(st, identifier, command, delay, answer, lat) ==
    IF ~Has(st.inst, identifier)
    THEN Result(st, <<>>, RetNone, FALSE, 0)
    ELSE LET c == Call("query", Get(st.inst, identifier), command, answer.ok)
         IN  IF ~answer.ok \/ delay < 0
             THEN Result(st, <<c>>, RetNone, TRUE, lat)
             ELSE Result(st, <<c>>, RetStr(Strip(answer.text)), FALSE, lat)

\* mutant: the delay is slept even when the key is absent
QueryBodyAbsentSleeps(st, identifier, command, delay, answer, lat) ==
    IF ~Has(st.inst, identifier)
    THEN Result(st, <<>>, RetNone, FALSE, delay)
    ELSE LET c == Call("query", Get(st.inst, identifier), command, answer.ok)
         IN  IF ~answer.ok \/ delay < 0
             THEN Result(st, <<c>>, RetNone, TRUE, lat)
             ELSE Result(st, <<c>>, RetStr(Strip(answer.text)), FALSE, lat + delay)

QueryBody(st, identifier, command, delay, answer, lat) ==
    IF ~Has(st.inst, identifier)
    THEN Result(st, <<>>, RetNone, FALSE, 0)
    ELSE LET c == Call("query", Get(st.inst, identifier), command, answer.ok)
         IN  IF ~answer.ok \/ delay < 0
             THEN Result(st, <<c>>, RetNone, TRUE, lat)
             ELSE Result(st, <<c>>, RetStr(Strip(answer.text)), FALSE, lat + delay)

query_command(st, identifier, command, delay, answer, lat) ==
    ExceptReturn(QueryBody(st, identifier, command, delay, answer, lat), RetNone)

\* read_response, the try block (lines 177-183)
ReadBody(st, identifier, answer) ==
    IF ~Has(st.inst, identifier)
    THEN Result(st, <<>>, RetNone, FALSE, 0)
    ELSE LET c == Call("read", Get(st.inst, identifier), "", answer.ok)
         IN  IF ~answer.ok
             THEN Result(st, <<c>>, RetNone, TRUE, 0)
             ELSE Result(st, <<c>>, RetStr(Strip(answer.text)), FALSE, 0)

read_response(st, identifier, answer) ==
    ExceptReturn(ReadBody(st, identifier, answer), RetNone)

\* the SCPI convenience calls (lines 199, 211, 223)
ResetDelay == 20
get_identification(st, identifier, answer, lat) ==
    query_command(st, identifier, "*IDN?", QueryDelay, answer, lat)
reset_instrument(st, identifier, writeOutcome) ==
    send_command(st, identifier, "*RST", ResetDelay, writeOutcome)
clear_instrument(st, identifier, writeOutcome) ==
    send_command(st, identifier, "*CLS", QueryDelay, writeOutcome)

\* mutant: any non-empty response counts as complete ("if response:")
OperationCompleteTruthy(response) == response.kind = "str" /\ response.s # <<>>

\* wait_for_completion's test of a poll's response (line 239)
\* mutant: the response is compared with the number 1, never equal to a string
OperationCompleteInt(response) == FALSE

OperationComplete(response) == response = RetStr(<<"1">>)

\* close_all_connections: the loop over list(self.instruments.keys())
\* (lines 250-251); outcomes[i] is what the i-th close does
\* mutant: the loop stops at the first disconnect that fails
RECURSIVE DisconnectEachStopsOnFailure(_, _, _)
DisconnectEachStopsOnFailure(r, keys, outcomes) ==
    IF keys = <<>> THEN r
    ELSE LET d == disconnect_instrument(r.st, Head(keys), Head(outcomes))
         IN  IF d.raised
             THEN [d EXCEPT !.io = r.io \o d.io]
             ELSE IF d.ret = RetBool(FALSE)
             THEN Result(d.st, r.io \o d.io, RetNone, FALSE, 0)
             ELSE DisconnectEachStopsOnFailure(
                      Result(d.st, r.io \o d.io, RetNone, FALSE, 0),
                      Tail(keys), Tail(outcomes))

RECURSIVE DisconnectEach(_, _, _)
DisconnectEach(r, keys, outcomes) ==
    IF keys = <<>> THEN r
    ELSE LET d == disconnect_instrument(r.st, Head(keys), Head(outcomes))
         IN  IF d.raised
             THEN [d EXCEPT !.io = r.io \o d.io]
             ELSE DisconnectEach(Result(d.st, r.io \o d.io, RetNone, FALSE, 0),
                                 Tail(keys), Tail(outcomes))

\* self.rm.close() in its try block (lines 253-257)
RmCloseBody(st, rmOutcome) ==
    LET c == Call("rm_close", 0, "", rmOutcome # "raise")
    IN  IF rmOutcome = "raise"
        THEN Result(st, <<c>>, RetNone, TRUE, 0)
        ELSE Result([st EXCEPT !.rm = TRUE], <<c>>, RetNone, FALSE, 0)

close_all_connections(st, outcomes, rmOutcome) ==
    LET loop == DisconnectEach(Result(st, <<>>, RetNone, FALSE, 0),
                               DictKeys(st.inst), outcomes)
    IN  IF loop.raised THEN loop
        ELSE LET rmc == ExceptReturn(RmCloseBody(loop.st, rmOutcome), RetNone)
             IN  [rmc EXCEPT !.io = loop.io \o rmc.io]

VARIABLES
    instruments,  \* self.instruments
    opened,       \* number of handles open_resource has returned (the last id)
    closeCalls,   \* closeCalls[h]: close calls this layer issued on handle h
    rmClosed,     \* self.rm.close() has returned
    leaked,       \* handles dropped from the registry by a re-registration
    pc,           \* "idle", or "wait" inside wait_for_completion's loop
    wfc,          \* wait_for_completion's frame
    last          \* the last public call: its arguments, result and transport calls

vars == <<instruments, opened, closeCalls, rmClosed, leaked, pc, wfc, last>>

\* the part of the state the operations transform
State == [inst |-> instruments, opened |-> opened, cc |-> closeCalls,
          rm |-> rmClosed, leaked |-> leaked]

\* wait_for_completion's frame: its arguments, time.time() - start_time,
\* the query_command calls made, the time.sleep(0.1) calls made, and what
\* query_command returned (the first return, and the set of all returns);
\* texts: the texts the transport answered to the "*OPC?" queries
NoWait == [identifier |-> "", timeout |-> 0, elapsed |-> 0, polls |-> 0,
           sleeps |-> 0, first |-> <<>>, answers |-> {}, texts |-> {}]

LastCall(op, id, alias, r) ==
    [op |-> op, id |-> id, alias |-> alias, ret |-> r.ret, raised |-> r.raised,
     io |-> r.io]

\* ----------------------------------------------------------------- actions

\* GPIBController() (lines 36-42): a resource manager and an empty registry
Init ==
    /\ instruments = <<>>
    /\ opened = 0
    /\ closeCalls = <<>>
    /\ rmClosed = FALSE
    /\ leaked = {}
    /\ pc = "idle"
    /\ wfc = NoWait
    /\ last = LastCall("__init__", "", None,
                       Result(<<>>, <<>>, RetNone, FALSE, 0))

\* a public call that runs to its end in one step
Returned(op, id, alias, r) ==
    /\ pc = "idle"
    /\ instruments' = r.st.inst
    /\ opened' = r.st.opened
    /\ closeCalls' = r.st.cc
    /\ rmClosed' = r.st.rm
    /\ leaked' = r.st.leaked
    /\ last' = LastCall(op, id, alias, r)
    /\ pc' = "idle"
    /\ wfc' = NoWait

\* the close calls a handle may still receive within the model's bound
MayClose(h) == closeCalls[h] < MaxCloseCalls

ListResources ==
    \E answer \in ListAnswers :
        Returned("list_resources", "", None, list_resources(State, answer))

ConnectInstrument(maxHandles) ==
    \E resource_name \in Addresses, alias \in Aliases, outcome \in ConnectOutcomes :
        /\ outcome # "open_raises" => opened < maxHandles
        /\ Returned("connect_instrument", resource_name, alias,
                    connect_instrument(State, resource_name, alias, outcome))

DisconnectInstrument ==
    \E identifier \in Identifiers, closeOutcome \in Outcomes :
        /\ Has(instruments, identifier) => MayClose(Get(instruments, identifier))
        /\ Returned("disconnect_instrument", identifier, None,
                    disconnect_instrument(State, identifier, closeOutcome))

SendCommand ==
    \E identifier \in Identifiers, command \in SendCommands, delay \in Delays,
       writeOutcome \in Outcomes :
        Returned("send_command", identifier, None,
                 send_command(State, identifier, command, delay, writeOutcome))

QueryCommand ==
    \E identifier \in Identifiers, command \in QueryCommands, delay \in Delays,
       answer \in IoAnswers :
        Returned("query_command", identifier, None,
                 query_command(State, identifier, command, delay, answer, 0))

ReadResponse ==
    \E identifier \in Identifiers, answer \in IoAnswers :
        Returned("read_response", identifier, None,
                 read_response(State, identifier, answer))

GetIdentification ==
    \E identifier \in Identifiers, answer \in IoAnswers :
        Returned("get_identification", identifier, None,
                 get_identification(State, identifier, answer, 0))

ResetInstrument ==
    \E identifier \in Identifiers, writeOutcome \in Outcomes :
        Returned("reset_instrument", identifier, None,
                 reset_instrument(State, identifier, writeOutcome))

ClearInstrument ==
    \E identifier \in Identifiers, writeOutcome \in Outcomes :
        Returned("clear_instrument", identifier, None,
                 clear_instrument(State, identifier, writeOutcome))

CloseAllConnections ==
    \E outcomes \in [1..Len(instruments) -> Outcomes], rmOutcome \in Outcomes :
        /\ \A h \in Handles(instruments) : MayClose(h)
        /\ Returned("close_all_connections", "", None,
                    close_all_connections(State, outcomes, rmOutcome))

\* wait_for_completion: start_time = time.time() (line 236)
WaitStart(timeouts) ==
    \E identifier \in Identifiers, timeout \in timeouts :
        /\ pc = "idle"
        /\ pc' = "wait"
        /\ wfc' = [NoWait EXCEPT !.identifier = identifier, !.timeout = timeout]
        /\ last' = LastCall("wait_for_completion", identifier, None,
                            Result(State, <<>>, RetNone, FALSE, 0))
        /\ UNCHANGED <<instruments, opened, closeCalls, rmClosed, leaked>>

\* one turn of the loop (lines 237-241): the condition holds, query_command
\* runs, and the call returns True or sleeps
WaitPoll ==
    \E answer \in Answers, lat \in 0..MaxLatency :
        /\ pc = "wait"
        /\ wfc.elapsed < wfc.timeout
        /\ LET q == query_command(State, wfc.identifier, "*OPC?", QueryDelay,
                                  answer, lat)
               polled == [wfc EXCEPT !.polls = @ + 1,
                                     !.elapsed = @ + q.dt,
                                     !.first = IF wfc.polls = 0 THEN <<q.ret>> ELSE @,
                                     !.answers = @ \cup {q.ret},
                                     !.texts = IF q.io # <<>> /\ answer.ok
                                               THEN @ \cup {answer.text}
                                               ELSE @]
               io == last.io \o q.io
           IN  /\ instruments' = q.st.inst
               /\ opened' = q.st.opened
               /\ closeCalls' = q.st.cc
               /\ rmClosed' = q.st.rm
               /\ leaked' = q.st.leaked
               /\ IF q.raised
                  THEN /\ pc' = "idle"
                       /\ wfc' = polled
                       /\ last' = [last EXCEPT !.io = io, !.raised = TRUE]
                  ELSE IF OperationComplete(q.ret)
                  THEN /\ pc' = "idle"
                       /\ wfc' = polled
                       /\ last' = [last EXCEPT !.io = io, !.ret = RetBool(TRUE)]
                  ELSE /\ pc' = "wait"
                       /\ wfc' = [polled EXCEPT !.sleeps = @ + 1,
                                                !.elapsed = @ + PollSleep]
                       /\ last' = [last EXCEPT !.io = io]

\* the loop condition fails (lines 237, 243-244)
WaitTimeout ==
    /\ pc = "wait"
    /\ ~(wfc.elapsed < wfc.timeout)
    /\ pc' = "idle"
    /\ last' = [last EXCEPT !.ret = RetBool(FALSE)]
    /\ UNCHANGED <<instruments, opened, closeCalls, rmClosed, leaked, wfc>>

Next ==
    \/ ListResources
    \/ ConnectInstrument(MaxHandles)
    \/ DisconnectInstrument
    \/ SendCommand
    \/ QueryCommand
    \/ ReadResponse
    \/ GetIdentification
    \/ ResetInstrument
    \/ ClearInstrument
    \/ CloseAllConnections
    \/ WaitStart(ShortTimeouts)
    \/ WaitPoll
    \/ WaitTimeout

Spec == Init /\ [][Next]_vars

\* the registry's operations alone, with room for three sessions
NextRegistry ==
    \/ ConnectInstrument(MaxSessions)
    \/ DisconnectInstrument
    \/ CloseAllConnections

SpecRegistry == Init /\ [][NextRegistry]_vars

\* wait_for_completion alone, with timeouts up to one second, called on an
\* empty registry or on one holding a session (after connect_instrument
\* with or without an alias)
InitWait ==
    /\ \E key \in Identifiers :
          instruments \in {<<>>, <<[k |-> key, h |-> 1]>>}
    /\ opened = Len(instruments)
    /\ closeCalls = [h \in 1..opened |-> 0]
    /\ rmClosed = FALSE
    /\ leaked = {}
    /\ pc = "idle"
    /\ wfc = NoWait
    /\ last = LastCall("__init__", "", None,
                       Result(<<>>, <<>>, RetNone, FALSE, 0))

NextWait ==
    \/ WaitStart(Timeouts)
    \/ WaitPoll
    \/ WaitTimeout

SpecWait == InitWait /\ [][NextWait]_vars

\* the same, with the loop running on: the calling thread executes the loop's
\* next turn, or its exit, whenever it is inside wait_for_completion
SpecWaitFair == SpecWait /\ WF_vars(WaitPoll \/ WaitTimeout)

\* ------------------------------------------------------------------ claims

\* a public call has just returned op
JustReturned(op) == pc = "idle" /\ last.op = op

\* what each operation returns when it fails
Sentinel(op) ==
    CASE op \in {"disconnect_instrument", "send_command", "reset_instrument",
                 "clear_instrument", "connect_instrument"} -> RetBool(FALSE)
      [] op = "list_resources" -> RetList(<<>>)
      [] OTHER -> RetNone

\* C1: after close_all_connections() the registry is empty, whether or not
\* a handle's close raised.
C1_CloseAllEmptiesRegistry ==
    JustReturned("close_all_connections") => instruments = <<>>

\* C2: for a key that is not in the registry, send_command, query_command,
\* read_response and disconnect_instrument return their failure sentinel,
\* issue no transport call and leave the registry as it was.
C2_AbsentKeyOps ==
    {"send_command", "query_command", "read_response", "disconnect_instrument"}

C2_AbsentKeyNoTransport ==
    [][(pc = "idle" /\ last'.op \in C2_AbsentKeyOps
          /\ ~Has(instruments, last'.id))
       => /\ last'.ret = Sentinel(last'.op)
          /\ ~last'.raised
          /\ last'.io = <<>>
          /\ instruments' = instruments
          /\ closeCalls' = closeCalls]_vars

C2_Witness ==
    /\ pc = "idle"
    /\ last.op = "query_command"
    /\ instruments # <<>>
    /\ ~Has(instruments, last.id)
    /\ last.io = <<>>
    /\ last.ret = RetNone

\* C3: no public operation other than construction raises to its caller:
\* whatever transport call fails, the operation returns, and a one-call
\* operation whose transport call raised returns its sentinel.
C3_OneCallOps ==
    {"list_resources", "connect_instrument", "disconnect_instrument",
     "send_command", "query_command", "read_response", "get_identification",
     "reset_instrument", "clear_instrument"}

C3_NeverRaises ==
    /\ ~last.raised
    /\ (pc = "idle" /\ last.op \in C3_OneCallOps
          /\ \E i \in 1..Len(last.io) : ~last.io[i].ok)
       => last.ret = Sentinel(last.op)
    /\ JustReturned("close_all_connections") => last.ret = RetNone
    /\ JustReturned("wait_for_completion") => last.ret.kind = "bool"

C3_Witness ==
    /\ JustReturned("close_all_connections")
    /\ Len(last.io) = 2
    /\ ~last.io[1].ok
    /\ ~last.io[2].ok

\* C4: connect_instrument(address, alias) that succeeds, followed by
\* disconnect_instrument(alias), leaves the registry without alias, and the
\* handle the connect opened has received exactly one close call.
C4_ConnectThenDisconnect ==
    [][(/\ JustReturned("connect_instrument")
        /\ last.ret = RetBool(TRUE)
        /\ Truthy(last.alias)
        /\ last'.op = "disconnect_instrument"
        /\ last'.id = last.alias[1])
       => /\ ~Has(instruments', last'.id)
          /\ closeCalls'[opened] = 1]_vars

\* C5: a connect_instrument that succeeds under a key already registered
\* replaces the entry with the new handle, and the handle it replaced
\* receives no close call from this layer, then or ever after.
C5_ReplacedHandleNeverClosed ==
    [][/\ \A h \in leaked' : closeCalls'[h] = closeCalls[h]
       /\ leaked \subseteq leaked'
       /\ (/\ pc = "idle"
           /\ last'.op = "connect_instrument"
           /\ last'.ret = RetBool(TRUE)
           /\ Has(instruments, ConnectKey(last'.id, last'.alias)))
          => LET key == ConnectKey(last'.id, last'.alias)
             IN  /\ Get(instruments', key) = opened'
                 /\ opened' = opened + 1
                 /\ Get(instruments, key) \in leaked'
                 /\ Get(instruments, key) \notin Handles(instruments')]_vars

C5_Witness ==
    /\ JustReturned("close_all_connections")
    /\ instruments = <<>>
    /\ \E h \in leaked : closeCalls[h] = 0

\* a wait_for_completion(key, 1.0) on a connected key has returned, and every
\* "*OPC?" it issued was answered "0"
C6_AlwaysZeroWaitDone ==
    /\ JustReturned("wait_for_completion")
    /\ wfc.timeout = OneSecond
    /\ Has(instruments, wfc.identifier)
    /\ wfc.answers = {RetStr(<<"0">>)}

\* C6 as stated: such a wait returns failure about 1 s after it started
\* (within one 0.1 s polling interval), having issued between 9 and 11 poll
\* queries; stated here for a transport that answers at once.
C6_NineToElevenPolls ==
    (C6_AlwaysZeroWaitDone /\ wfc.elapsed = wfc.polls * (QueryDelay + PollSleep))
    => /\ last.ret = RetBool(FALSE)
       /\ wfc.elapsed \in (OneSecond - PollSleep)..(OneSecond + PollSleep)
       /\ wfc.polls \in 9..11
       /\ Len(last.io) = wfc.polls

\* C6 as amended: such a wait returns failure no earlier than 1 s after it
\* started and less than one turn of the loop (0.2 s plus the transport's
\* latency) later, having issued at least 1 and at most 5 poll queries, one
\* per 0.2 s or slower (query_command's 0.1 s delay plus the loop's 0.1 s
\* sleep); exactly 5, at exactly 1 s, when the transport answers at once.
C6_AtMostFivePolls ==
    C6_AlwaysZeroWaitDone
    => /\ last.ret = RetBool(FALSE)
       /\ wfc.elapsed >= OneSecond
       /\ wfc.elapsed < OneSecond + QueryDelay + PollSleep + MaxLatency
       /\ wfc.elapsed >= wfc.polls * (QueryDelay + PollSleep)
       /\ wfc.polls \in 1..5
       /\ Len(last.io) = wfc.polls
       /\ \A i \in 1..Len(last.io) :
              last.io[i].call = "query" /\ last.io[i].arg = "*OPC?"
       /\ wfc.elapsed = wfc.polls * (QueryDelay + PollSleep)
              => wfc.polls = 5 /\ wfc.elapsed = OneSecond

C6_Witness ==
    /\ C6_AlwaysZeroWaitDone
    /\ wfc.polls = 5
    /\ wfc.elapsed = OneSecond

\* C7: wait_for_completion on a connected key whose first "*OPC?" is
\* answered "1" returns success with exactly one query issued, without
\* sleeping in the loop or waiting for the timeout.
C7_FirstAnswerOne ==
    (/\ last.op = "wait_for_completion"
     /\ Has(instruments, wfc.identifier)
     /\ wfc.first = <<RetStr(<<"1">>)>>)
    => /\ pc = "idle"
       /\ last.ret = RetBool(TRUE)
       /\ wfc.polls = 1
       /\ wfc.sleeps = 0
       /\ last.io = <<Call("query", Get(instruments, wfc.identifier), "*OPC?", TRUE)>>
       /\ wfc.elapsed <= QueryDelay + MaxLatency

C7_Witness ==
    /\ JustReturned("wait_for_completion")
    /\ wfc.first = <<RetStr(<<"1">>)>>
    /\ wfc.timeout = OneSecond
    /\ wfc.elapsed < wfc.timeout
    /\ last.ret = RetBool(TRUE)

\* C8: a connect_instrument(address, alias) that succeeds stores the new
\* handle under alias, for any alias string given, and under address when
\* none is given; no other key is added or changed.
C8_StoredUnderAlias ==
    [][(pc = "idle" /\ last'.op = "connect_instrument"
          /\ last'.ret = RetBool(TRUE))
       => LET key == IF last'.alias # None THEN last'.alias[1] ELSE last'.id
          IN  /\ Has(instruments', key)
              /\ Get(instruments', key) = opened'
              /\ \A k \in Identifiers \ {key} :
                    /\ Has(instruments', k) <=> Has(instruments, k)
                    /\ Has(instruments, k)
                          => Get(instruments', k) = Get(instruments, k)]_vars

\* C9: every key in the registry maps to a handle on which this layer has
\* not invoked close.
C9_RegisteredHandlesNeverClosed ==
    \A i \in 1..Len(instruments) : closeCalls[instruments[i].h] = 0

\* C10: disconnect_instrument(key) on a present key calls close on its
\* handle once; when close returns, the entry is removed and the call
\* returns success; when close raises, the call returns failure and the
\* entry stays, mapped to the same handle.
C10_DisconnectPresentKey ==
    [][(pc = "idle" /\ last'.op = "disconnect_instrument"
          /\ Has(instruments, last'.id))
       => LET key == last'.id
              h   == Get(instruments, key)
          IN  /\ Len(last'.io) = 1
              /\ last'.io[1].call = "close"
              /\ last'.io[1].h = h
              /\ closeCalls'[h] = closeCalls[h] + 1
              /\ ~last'.raised
              /\ IF last'.io[1].ok
                 THEN /\ last'.ret = RetBool(TRUE)
                      /\ ~Has(instruments', key)
                      /\ instruments' = Del(instruments, key)
                 ELSE /\ last'.ret = RetBool(FALSE)
                      /\ instruments' = instruments]_vars

C10_Witness ==
    /\ JustReturned("disconnect_instrument")
    /\ Has(instruments, last.id)
    /\ last.ret = RetBool(FALSE)
    /\ last.io = <<Call("close", Get(instruments, last.id), "", FALSE)>>

\* C11: close_all_connections() on a registry of n sessions issues exactly
\* one close call on each of the n registered handles, in the registry's
\* order, and then exactly one resource-manager close call, after every
\* handle close, whether or not any of these calls raises.
C11_CloseAllCalls ==
    [][(pc = "idle" /\ last'.op = "close_all_connections")
       => LET n == Len(instruments)
          IN  /\ Len(last'.io) = n + 1
              /\ \A i \in 1..n :
                    /\ last'.io[i].call = "close"
                    /\ last'.io[i].h = instruments[i].h
                    /\ closeCalls'[instruments[i].h]
                          = closeCalls[instruments[i].h] + 1
              /\ last'.io[n + 1].call = "rm_close"
              /\ ~last'.raised]_vars

C11_Witness ==
    /\ JustReturned("close_all_connections")
    /\ Len(last.io) = 4
    /\ ~last.io[1].ok
    /\ last.io[2].ok
    /\ ~last.io[4].ok

\* C12: list_resources, send_command, query_command, read_response,
\* get_identification, reset_instrument, clear_instrument and
\* wait_for_completion leave the registry (its keys, their order and their
\* handles) as it was, whether they succeed or fail; only
\* connect_instrument, disconnect_instrument and close_all_connections
\* change it.
C12_RegistryMutators ==
    {"connect_instrument", "disconnect_instrument", "close_all_connections"}

C12_OnlyMutatorsChangeRegistry ==
    [][/\ last'.op \notin C12_RegistryMutators => instruments' = instruments
       /\ instruments' # instruments
             => pc = "idle" /\ last'.op \in C12_RegistryMutators]_vars

C12_Witness ==
    /\ JustReturned("reset_instrument")
    /\ Has(instruments, last.id)
    /\ last.ret = RetBool(FALSE)
    /\ last.io = <<Call("write", Get(instruments, last.id), "*RST", FALSE)>>

\* C13: once close_all_connections() has run, no later call adds a session:
\* a connect_instrument that follows returns failure and the registry
\* stays empty.  Stated for a close_all_connections whose self.rm.close()
\* raised (the failure is only logged), which leaves the resource manager
\* open.
C13_NoSessionAfterCloseAll ==
    [][(/\ JustReturned("close_all_connections")
        /\ ~rmClosed
        /\ last'.op = "connect_instrument")
       => /\ last'.ret = RetBool(FALSE)
          /\ instruments' = <<>>]_vars

\* C14: wait_for_completion(key, timeout) returns for every finite timeout,
\* and it returns success exactly when the transport answered one of its
\* "*OPC?" polls (each issued while the elapsed time was below timeout)
\* with a text that is "1" once trimmed; after any other response, a
\* failed query or an absent key it keeps polling, and it returns failure
\* only once the elapsed time has reached timeout.
C14_SawOne == \E t \in wfc.texts : Strip(t) = <<"1">>

C14_WaitOutcome ==
    /\ pc = "wait" => ~C14_SawOne /\ last.ret = RetNone
    /\ JustReturned("wait_for_completion")
          => /\ last.ret \in {RetBool(TRUE), RetBool(FALSE)}
             /\ last.ret = RetBool(TRUE) <=> C14_SawOne
             /\ last.ret = RetBool(TRUE) => wfc.polls >= 1
             /\ last.ret = RetBool(FALSE) => wfc.elapsed >= wfc.timeout
             /\ wfc.polls >= 1
                   => wfc.elapsed - MaxLatency - QueryDelay
                         - (IF last.ret = RetBool(FALSE) THEN PollSleep ELSE 0)
                      < wfc.timeout

C14_WaitTerminates ==
    /\ []C14_WaitOutcome
    /\ (pc = "wait") ~> (pc = "idle")

C14_Witness ==
    /\ JustReturned("wait_for_completion")
    /\ last.ret = RetBool(TRUE)
    /\ wfc.polls >= 3
    /\ RetNone \in wfc.answers
    /\ RetStr(<<"1", "0">>) \in wfc.answers
    /\ <<" ", "1", "\n">> \in wfc.texts

\* C15: a connect_instrument call that returns failure leaves the registry
\* exactly as it was, whether opening the resource raised or configuring
\* the opened handle did; nor does it close or displace any handle.
C15_FailedConnectKeepsRegistry ==
    [][(pc = "idle" /\ last'.op = "connect_instrument"
          /\ last'.ret = RetBool(FALSE))
       => /\ instruments' = instruments
          /\ leaked' = leaked
          /\ \A h \in 1..opened : closeCalls'[h] = closeCalls[h]
          /\ ~last'.raised
          /\ \E i \in 1..Len(last'.io) : ~last'.io[i].ok]_vars

C15_Witness ==
    /\ JustReturned("connect_instrument")
    /\ last.ret = RetBool(FALSE)
    /\ Len(last.io) = 2
    /\ last.io[1].ok
    /\ ~last.io[2].ok
    /\ Len(instruments) = 2
    /\ Has(instruments, ConnectKey(last.id, last.alias))

\* C16: disconnect_instrument(key) touches only the entry for key: every
\* other entry keeps its key, its place and its handle, and no handle other
\* than the one registered under key receives a close call, whether the
\* disconnect succeeds or fails.
C16_DisconnectTouchesOnlyKey ==
    [][(pc = "idle" /\ last'.op = "disconnect_instrument")
       => LET key == last'.id
          IN  /\ instruments' \in {instruments, Del(instruments, key)}
              /\ \A k \in Identifiers \ {key} :
                    /\ Has(instruments', k) <=> Has(instruments, k)
                    /\ Has(instruments, k)
                          => Get(instruments', k) = Get(instruments, k)
              /\ \A h \in 1..opened :
                    (~Has(instruments, key) \/ h # Get(instruments, key))
                       => closeCalls'[h] = closeCalls[h]
              /\ \A i \in 1..Len(last'.io) :
                    /\ last'.io[i].call = "close"
                    /\ Has(instruments, key)
                    /\ last'.io[i].h = Get(instruments, key)
              /\ opened' = opened
              /\ leaked' = leaked]_vars

C16_Witness ==
    /\ JustReturned("disconnect_instrument")
    /\ last.ret = RetBool(TRUE)
    /\ Len(last.io) = 1
    /\ Len(instruments) = 2
    /\ \A i \in 1..Len(instruments) : closeCalls[instruments[i].h] = 0

\* C17: wait_for_completion(key, timeout) on a key that is not in the
\* registry issues no transport call and does not fail at once: every poll
\* gets None from query_command at no cost in time and is followed by the
\* 0.1 s sleep, so the polls are 0.1 s apart, and False is returned only
\* when the whole timeout has elapsed, after timeout / 0.1 s polls.
C17_AbsentKeyWaitsFullTimeout ==
    (pc = "wait" \/ JustReturned("wait_for_completion"))
       /\ ~Has(instruments, wfc.identifier)
    => /\ last.io = <<>>
       /\ ~last.raised
       /\ wfc.answers \subseteq {RetNone}
       /\ wfc.sleeps = wfc.polls
       /\ wfc.elapsed = wfc.polls * PollSleep
       /\ wfc.elapsed <= wfc.timeout
       /\ pc = "wait" => last.ret = RetNone
       /\ pc = "idle" => /\ last.ret = RetBool(FALSE)
                         /\ wfc.elapsed = wfc.timeout
                         /\ wfc.polls * PollSleep = wfc.timeout

C17_Witness ==
    /\ JustReturned("wait_for_completion")
    /\ ~Has(instruments, wfc.identifier)
    /\ instruments # <<>>
    /\ wfc.timeout = OneSecond
    /\ wfc.polls = 10
    /\ last.ret = RetBool(FALSE)
    /\ last.io = <<>>

====
